---- MODULE Spec2Model ----
(***************************************************************************)
(* A model of application.py: the camera acquisition thread                *)
(* (capture_frames), the LED render thread (led_update_loop), the auto     *)
(* motion policy thread (auto_led_update) and the Flask request handlers   *)
(* (off_led, capture, motion_status, set_led, toggle_motion_led and the    *)
(* generator of video_feed), over the module-level globals they share and  *)
(* the captures directory.                                                 *)
(*                                                                         *)
(* Units.  Colour channels are Python floats; the model holds them in      *)
(* hundredths, so 1.0 is 100 and float(v) / 100.0 of a percentage v is v   *)
(* hundredths.  Time is time.time() in whole seconds.                      *)
(***************************************************************************)
EXTENDS Integers, Sequences, FiniteSets, TLC

\* ------------------------------------------------------------------ bounds
\* The clock stops at MaxTime.
MaxTime == 2

\* --------------------------------------------------------- program constants
\* cv2.threshold(diff, 25, 255, ...): the per-pixel difference level.
DiffThreshold == 25
\* non_zero_count > 5000.
MotionPixels == 5000
\* flash_override_end = time.time() + 2.
FlashSeconds == 2
\* float(...) / 100.0, as hundredths: 1.0 is One.
One == 100
\* Clamp values near full off: out > 0.98.
NearOff == 98

\* -------------------------------------------------------------------- frames
\* A frame is 1920 x 1080 pixels, held as three regions of uniform pixels;
\* RegionSize[i] is the number of pixels of region i.
RegionSize == <<5000, 1, 2068599>>
Regions == DOMAIN RegionSize

\* A pixel is <<b, g, r>>.
Black == <<0, 0, 0>>
Lit == <<26, 26, 26>>

\* cv2.cvtColor(frame, cv2.COLOR_BGR2GRAY) on one pixel:
\* 0.114 B + 0.587 G + 0.299 R, rounded.
GrayOf(p) == (114 * p[1] + 587 * p[2] + 299 * p[3] + 500) \div 1000

CvtColor(f) == [i \in Regions |-> GrayOf(f[i])]

Abs(x) == IF x < 0 THEN -x ELSE x

\* cv2.absdiff
AbsDiff(g, h) == [i \in Regions |-> Abs(g[i] - h[i])]

\* cv2.threshold(diff, 25, 255, cv2.THRESH_BINARY)[1]
Threshold(d) == [i \in Regions |-> IF d[i] > DiffThreshold THEN 255 ELSE 0]

RECURSIVE SumSizes(_, _)
SumSizes(t, i) ==
    IF i = 0 THEN 0
    ELSE (IF t[i] # 0 THEN RegionSize[i] ELSE 0) + SumSizes(t, i - 1)

\* np.count_nonzero
CountNonZero(t) == SumSizes(t, Len(RegionSize))

\* A verdict that takes MotionPixels changed pixels for motion.
MotionAtLeast(gray, prev) ==
    CountNonZero(Threshold(AbsDiff(gray, prev))) >= MotionPixels

\* lines 96-99: the verdict of one frame against the previous one.
Motion(gray, prev) ==
    CountNonZero(Threshold(AbsDiff(gray, prev))) > MotionPixels

\* The frames the camera delivers.
Frames == { <<Black, Black, Black>>, <<Lit, Lit, Black>> }

\* Pixels around the difference level: gray 25, and a blue of gray 23.
Dim == <<25, 25, 25>>
DimBlue == <<200, 0, 0>>
Bright == <<255, 255, 255>>

\* The frames of a scene that tries the limits of the detector: against the
\* black frame, MotionPixels pixels changed, one more, every pixel changed by
\* DiffThreshold or less, every pixel changed by far.
MotionFrames ==
    { <<Black, Black, Black>>,
      <<Lit, Black, Black>>,
      <<Lit, Lit, Black>>,
      <<Dim, Dim, Dim>>,
      <<DimBlue, DimBlue, DimBlue>>,
      <<Bright, Bright, Bright>> }

\* Python's None, for a frame or a colour not yet assigned.
None == <<>>

\* ------------------------------------------------------------------- colours
Off == <<0, 0, 0>>
Blue == <<0, 0, One>>
White == <<One, One, One>>

\* ------------------------------------------------------------ request forms
\* request.form.get(name, 0): the text of a form field, Missing when absent.
Missing == "<missing>"

\* float(text): the numbers float() accepts, among the texts of the model.
FloatTable ==
    [t \in {"0", "1", "50", "100", "150", "-50"} |->
        CASE t = "0" -> 0 [] t = "1" -> 1 [] t = "50" -> 50
          [] t = "100" -> 100 [] t = "150" -> 150 [] t = "-50" -> 0 - 50]

\* float() raises ValueError on any other text.
IsFloat(t) == t = Missing \/ t \in DOMAIN FloatTable

\* float(request.form.get(name, 0)) / 100.0, in hundredths.
Channel(t) == IF t = Missing THEN 0 ELSE FloatTable[t]

\* A parse that defaults only the channel float() refuses.
ParseColorPerChannel(form) ==
    [i \in 1..3 |-> IF IsFloat(form[i]) THEN Channel(form[i]) ELSE 0]

\* lines 245-250: the colour set_led_endpoint hands to set_led_target.
ParseColor(form) ==
    IF IsFloat(form[1]) /\ IsFloat(form[2]) /\ IsFloat(form[3])
    THEN <<Channel(form[1]), Channel(form[2]), Channel(form[3])>>
    ELSE <<0, 0, 0>>

\* The forms the clients post: a preset, an out-of-range form, a form with a
\* non-numeric channel, a form with a channel left out.
Forms ==
    { <<"100", "1", "0">>,
      <<"150", "-50", Missing>>,
      <<"abc", "50", "100">> }

\* ------------------------------------------------------------------ actuator
\* set_led_color, one channel: inverted for a common anode LED, and clamped
\* near full off.
LedOut(c) == IF One - c > NearOff THEN One ELSE One - c

\* set_led_color(r, g, b): the values given to red_led, green_led, blue_led.
SetLedColor(c) == <<LedOut(c[1]), LedOut(c[2]), LedOut(c[3])>>

\* A flash that lasts through its last instant.
FlashOnThrough(t, end) == t <= end

\* line 166: now < flash_override_end.
FlashOn(t, end) == t < end

\* The two branches swapped.
AutoColorSwapped(motion) == IF motion THEN Off ELSE Blue

\* lines 182-185: blue for motion, off otherwise.
AutoColor(motion) == IF motion THEN Blue ELSE Off

\* ------------------------------------------------------------------- threads
Handlers == {"h1", "h2"}
NoOwner == "none"

\* A lock that excludes nobody.
LockFreeAlways(lock) == TRUE

\* threading.Lock: `with lock` is entered only while no thread holds it.
LockFree(lock) == lock = NoOwner

VARIABLES
    now,                 \* time.time()
    latest_frame_full,   \* line 78
    frame_lock,          \* line 79: the thread that holds it, or NoOwner
    prev_frame_gray,     \* line 82
    motion_detected,     \* line 83
    leds,                \* red_led.value, green_led.value, blue_led.value
    led_lock,            \* line 150
    led_target,          \* line 151
    flash_override_end,  \* line 152
    motion_led_auto,     \* line 176
    cap,                 \* capture_frames: pc, frame
    evaluated,           \* motion_detected was evaluated on latest_frame_full
    upd,                 \* led_update_loop: pc, now, desired
    auto,                \* auto_led_update: pc, new_color
    req,                 \* the request handlers
    captures_dir         \* line 66: CAPTURES_DIR holds capture_<now>.jpg

vars == <<now, latest_frame_full, frame_lock, prev_frame_gray, motion_detected,
          leds, led_lock, led_target, flash_override_end, motion_led_auto,
          cap, evaluated, upd, auto, req, captures_dir>>

NoResponse == [status |-> 0, body |-> "", value |-> FALSE]

IdleRequest ==
    [pc |-> "idle", op |-> "", form |-> <<>>, color |-> None,
     frame_to_save |-> None, saved |-> "no", flashed |-> FALSE,
     notified |-> FALSE, tmp |-> FALSE, resp |-> NoResponse,
     streak |-> 0, origin |-> FALSE]

Init ==
    /\ now = 0
    /\ latest_frame_full = None
    /\ frame_lock = NoOwner
    /\ prev_frame_gray = None
    /\ motion_detected = FALSE
    /\ leds = <<0, 0, 0>>
    /\ led_lock = NoOwner
    /\ led_target = <<0, 0, 0>>
    /\ flash_override_end = 0
    /\ motion_led_auto = TRUE
    /\ cap = [pc |-> "sleep", frame |-> None]
    /\ evaluated = TRUE
    /\ upd = [pc |-> "sleep", now |-> 0, desired |-> None]
    /\ auto = [pc |-> "sleep", new_color |-> None]
    /\ req = [h \in Handlers |-> IdleRequest]
    /\ captures_dir = FALSE

\* The clock advances.  File names are formed from the present second (lines
\* 219-220), so no file bears the name of the second that begins.
Tick ==
    /\ now < MaxTime
    /\ now' = now + 1
    /\ captures_dir' = FALSE
    /\ UNCHANGED <<latest_frame_full, frame_lock, prev_frame_gray,
                   motion_detected, leds, led_lock, led_target,
                   flash_override_end, motion_led_auto, cap, evaluated, upd,
                   auto, req>>

\* ---------------------------------------------------------- capture_frames
\* lines 103, 90: after time.sleep(0.03), picam2.capture_array() returns a
\* frame, one of those the scene offers.
CaptureFrom(scene) ==
    /\ cap.pc = "sleep"
    /\ \E f \in scene : cap' = [pc |-> "lock", frame |-> f]
    /\ UNCHANGED <<now, latest_frame_full, frame_lock, prev_frame_gray,
                   motion_detected, leds, led_lock, led_target,
                   flash_override_end, motion_led_auto, evaluated, upd, auto, req,
                   captures_dir>>

CaptureArray == CaptureFrom(Frames)

\* An acquisition whose exception is not caught: the thread ends.
CaptureArrayStops ==
    /\ cap.pc = "sleep"
    /\ cap' = [cap EXCEPT !.pc = "stopped"]
    /\ UNCHANGED <<now, latest_frame_full, frame_lock, prev_frame_gray,
                   motion_detected, leds, led_lock, led_target,
                   flash_override_end, motion_led_auto, evaluated, upd, auto, req,
                   captures_dir>>

\* lines 90, 101: picam2.capture_array() raises, and the except clause
\* catches the exception.
CaptureArrayFails ==
    /\ cap.pc = "sleep"
    /\ cap' = [cap EXCEPT !.pc = "except"]
    /\ UNCHANGED <<now, latest_frame_full, frame_lock, prev_frame_gray,
                   motion_detected, leds, led_lock, led_target,
                   flash_override_end, motion_led_auto, evaluated, upd, auto, req,
                   captures_dir>>

\* lines 102-103: the error is printed, and the loop sleeps again.
PrintError ==
    /\ cap.pc = "except"
    /\ cap' = [cap EXCEPT !.pc = "sleep"]
    /\ UNCHANGED <<now, latest_frame_full, frame_lock, prev_frame_gray,
                   motion_detected, leds, led_lock, led_target,
                   flash_override_end, motion_led_auto, evaluated, upd, auto, req,
                   captures_dir>>

\* line 91: with frame_lock.
StoreLock ==
    /\ cap.pc = "lock"
    /\ LockFree(frame_lock)
    /\ frame_lock' = "cap"
    /\ cap' = [cap EXCEPT !.pc = "store"]
    /\ UNCHANGED <<now, latest_frame_full, prev_frame_gray, motion_detected,
                   leds, led_lock, led_target, flash_override_end,
                   motion_led_auto, evaluated, upd, auto, req, captures_dir>>

\* line 92: latest_frame_full = frame.copy(), and the lock is released.
StoreFrame ==
    /\ cap.pc = "store"
    /\ latest_frame_full' = cap.frame
    /\ evaluated' = FALSE
    /\ frame_lock' = NoOwner
    /\ cap' = [cap EXCEPT !.pc = "evaluate"]
    /\ UNCHANGED <<now, prev_frame_gray, motion_detected, leds, led_lock,
                   led_target, flash_override_end, motion_led_auto, upd, auto,
                   req, captures_dir>>

\* lines 94-100: the motion verdict of the frame against the previous one.
EvaluateMotion ==
    /\ cap.pc = "evaluate"
    /\ LET gray == CvtColor(cap.frame) IN
         /\ motion_detected' =
              IF prev_frame_gray # None THEN Motion(gray, prev_frame_gray)
              ELSE motion_detected
         /\ prev_frame_gray' = gray
    /\ evaluated' = TRUE
    /\ cap' = [cap EXCEPT !.pc = "sleep"]
    /\ UNCHANGED <<now, latest_frame_full, frame_lock, leds, led_lock,
                   led_target, flash_override_end, motion_led_auto, upd, auto,
                   req, captures_dir>>

capture_frames ==
    \/ CaptureArray \/ CaptureArrayFails \/ PrintError \/ StoreLock
    \/ StoreFrame \/ EvaluateMotion

\* --------------------------------------------------------- led_update_loop
\* lines 171, 164: after time.sleep(0.1), now = time.time().
ReadClock ==
    /\ upd.pc = "sleep"
    /\ upd' = [upd EXCEPT !.pc = "lock", !.now = now]
    /\ UNCHANGED <<now, latest_frame_full, frame_lock, prev_frame_gray,
                   motion_detected, leds, led_lock, led_target,
                   flash_override_end, motion_led_auto, cap, evaluated, auto, req,
                   captures_dir>>

\* line 165: with led_lock.
ResolveLock ==
    /\ upd.pc = "lock"
    /\ LockFree(led_lock)
    /\ led_lock' = "upd"
    /\ upd' = [upd EXCEPT !.pc = "resolve"]
    /\ UNCHANGED <<now, latest_frame_full, frame_lock, prev_frame_gray,
                   motion_detected, leds, led_target, flash_override_end,
                   motion_led_auto, cap, evaluated, auto, req, captures_dir>>

\* lines 166-167: the flash override is on: desired is white, and the lock
\* is released.  Lines 166, 168: it is off, and the lock is kept.
ResolveColor ==
    /\ upd.pc = "resolve"
    /\ IF FlashOn(upd.now, flash_override_end)
       THEN /\ upd' = [upd EXCEPT !.pc = "drive", !.desired = White]
            /\ led_lock' = NoOwner
       ELSE /\ upd' = [upd EXCEPT !.pc = "target"]
            /\ UNCHANGED led_lock
    /\ UNCHANGED <<now, latest_frame_full, frame_lock, prev_frame_gray,
                   motion_detected, leds, led_target, flash_override_end,
                   motion_led_auto, cap, evaluated, auto, req, captures_dir>>

\* line 169: desired = led_target, and the lock is released.
ResolveTarget ==
    /\ upd.pc = "target"
    /\ upd' = [upd EXCEPT !.pc = "drive", !.desired = led_target]
    /\ led_lock' = NoOwner
    /\ UNCHANGED <<now, latest_frame_full, frame_lock, prev_frame_gray,
                   motion_detected, leds, led_target, flash_override_end,
                   motion_led_auto, cap, evaluated, auto, req, captures_dir>>

\* line 170: set_led_color(*desired).
Drive ==
    /\ upd.pc = "drive"
    /\ leds' = SetLedColor(upd.desired)
    /\ upd' = [upd EXCEPT !.pc = "sleep"]
    /\ UNCHANGED <<now, latest_frame_full, frame_lock, prev_frame_gray,
                   motion_detected, led_lock, led_target, flash_override_end,
                   motion_led_auto, cap, evaluated, auto, req, captures_dir>>

led_update_loop ==
    \/ ReadClock \/ ResolveLock \/ ResolveColor \/ ResolveTarget \/ Drive

\* --------------------------------------------------------- auto_led_update
\* lines 186, 181: after time.sleep(1), if motion_led_auto.
AutoCheck ==
    /\ auto.pc = "sleep"
    /\ auto' = [auto EXCEPT !.pc = IF motion_led_auto THEN "read" ELSE "sleep"]
    /\ UNCHANGED <<now, latest_frame_full, frame_lock, prev_frame_gray,
                   motion_detected, leds, led_lock, led_target,
                   flash_override_end, motion_led_auto, cap, evaluated, upd, req,
                   captures_dir>>

\* lines 182-185: if motion_detected, and the argument of set_led_target.
AutoRead ==
    /\ auto.pc = "read"
    /\ auto' = [pc |-> "lock", new_color |-> AutoColor(motion_detected)]
    /\ UNCHANGED <<now, latest_frame_full, frame_lock, prev_frame_gray,
                   motion_detected, leds, led_lock, led_target,
                   flash_override_end, motion_led_auto, cap, evaluated, upd, req,
                   captures_dir>>

\* line 157: with led_lock, in set_led_target.
AutoLock ==
    /\ auto.pc = "lock"
    /\ LockFree(led_lock)
    /\ led_lock' = "auto"
    /\ auto' = [auto EXCEPT !.pc = "write"]
    /\ UNCHANGED <<now, latest_frame_full, frame_lock, prev_frame_gray,
                   motion_detected, leds, led_target, flash_override_end,
                   motion_led_auto, cap, evaluated, upd, req, captures_dir>>

\* An auto policy that drives the LED itself when it writes the target.
AutoWriteDrives ==
    /\ auto.pc = "write"
    /\ led_target' = auto.new_color
    /\ leds' = SetLedColor(auto.new_color)
    /\ led_lock' = NoOwner
    /\ auto' = [auto EXCEPT !.pc = "sleep"]
    /\ UNCHANGED <<now, latest_frame_full, frame_lock, prev_frame_gray,
                   motion_detected, flash_override_end, motion_led_auto,
                   cap, evaluated, upd, req, captures_dir>>

\* line 158: led_target = new_color, and the lock is released.
AutoWrite ==
    /\ auto.pc = "write"
    /\ led_target' = auto.new_color
    /\ led_lock' = NoOwner
    /\ auto' = [auto EXCEPT !.pc = "sleep"]
    /\ UNCHANGED <<now, latest_frame_full, frame_lock, prev_frame_gray,
                   motion_detected, leds, flash_override_end, motion_led_auto,
                   cap, evaluated, upd, req, captures_dir>>

auto_led_update ==
    \/ AutoCheck \/ AutoRead \/ AutoLock \/ AutoWrite

\* ---------------------------------------------------------- Flask endpoints
\* A request arrives at an idle handler: its locals are fresh.  streak counts
\* the toggle_motion_led calls made one after the other by this handler, and
\* origin is motion_led_auto as the first of them found it.
Begin(h, op) ==
    [IdleRequest EXCEPT
        !.op = op,
        !.streak = IF op # "toggle" THEN 0
                   ELSE IF req[h].streak = 1 THEN 2 ELSE 1,
        !.origin = IF op # "toggle" THEN FALSE
                   ELSE IF req[h].streak = 1 THEN req[h].origin
                   ELSE motion_led_auto]

Response(status, body, value) ==
    [status |-> status, body |-> body, value |-> value]

\* The handler returns: its locals are gone, the response stays with the
\* client until the next request.
Return(h, resp) ==
    [req[h] EXCEPT !.pc = "idle", !.form = <<>>, !.color = None,
                   !.frame_to_save = None, !.tmp = FALSE, !.resp = resp]

\* lines 192-194: off_led_endpoint calls set_led_target((0, 0, 0)): line 157.
OffLedLock(h) ==
    /\ req[h].pc = "idle"
    /\ LockFree(led_lock)
    /\ led_lock' = h
    /\ req' = [req EXCEPT ![h] = [Begin(h, "off_led") EXCEPT
                                     !.pc = "off_write", !.color = Off]]
    /\ UNCHANGED <<now, latest_frame_full, frame_lock, prev_frame_gray,
                   motion_detected, leds, led_target, flash_override_end,
                   motion_led_auto, cap, evaluated, upd, auto, captures_dir>>

\* An off_led_endpoint that leaves the target alone while auto mode is on.
OffLedWriteGuarded(h) ==
    /\ req[h].pc = "off_write"
    /\ led_target' = IF motion_led_auto THEN led_target ELSE req[h].color
    /\ led_lock' = NoOwner
    /\ req' = [req EXCEPT ![h].pc = "off_notify"]
    /\ UNCHANGED <<now, latest_frame_full, frame_lock, prev_frame_gray,
                   motion_detected, leds, flash_override_end, motion_led_auto,
                   cap, evaluated, upd, auto, captures_dir>>

\* line 158: led_target = new_color, and the lock is released.
OffLedWrite(h) ==
    /\ req[h].pc = "off_write"
    /\ led_target' = req[h].color
    /\ led_lock' = NoOwner
    /\ req' = [req EXCEPT ![h].pc = "off_notify"]
    /\ UNCHANGED <<now, latest_frame_full, frame_lock, prev_frame_gray,
                   motion_detected, leds, flash_override_end, motion_led_auto,
                   cap, evaluated, upd, auto, captures_dir>>

\* lines 195-196: the notification, then jsonify(success=True).
OffLedReturn(h) ==
    /\ req[h].pc = "off_notify"
    /\ req' = [req EXCEPT ![h] = [Return(h, Response(200, "success", TRUE))
                                     EXCEPT !.notified = TRUE]]
    /\ UNCHANGED <<now, latest_frame_full, frame_lock, prev_frame_gray,
                   motion_detected, leds, led_lock, led_target,
                   flash_override_end, motion_led_auto, cap, evaluated, upd, auto,
                   captures_dir>>

\* line 215: capture() enters with frame_lock.
SnapshotLock(h) ==
    /\ req[h].pc = "idle"
    /\ LockFree(frame_lock)
    /\ frame_lock' = h
    /\ req' = [req EXCEPT ![h] = [Begin(h, "capture") EXCEPT !.pc = "cap_check"]]
    /\ UNCHANGED <<now, latest_frame_full, prev_frame_gray, motion_detected,
                   leds, led_lock, led_target, flash_override_end,
                   motion_led_auto, cap, evaluated, upd, auto, captures_dir>>

\* A capture() that does not look for a missing frame.
FramePresentAlways(frame) == TRUE

\* line 216: latest_frame_full is None, negated.
FramePresent(frame) == frame # None

\* lines 216-217: no frame yet, 503.
SnapshotNoFrame(h) ==
    /\ req[h].pc = "cap_check"
    /\ ~FramePresent(latest_frame_full)
    /\ frame_lock' = NoOwner
    /\ req' = [req EXCEPT
                  ![h] = Return(h, Response(503, "No frame available", FALSE))]
    /\ UNCHANGED <<now, latest_frame_full, prev_frame_gray, motion_detected,
                   leds, led_lock, led_target, flash_override_end,
                   motion_led_auto, cap, evaluated, upd, auto, captures_dir>>

\* line 218: frame_to_save = latest_frame_full.copy(), and the lock is released.
SnapshotCopy(h) ==
    /\ req[h].pc = "cap_check"
    /\ FramePresent(latest_frame_full)
    /\ frame_lock' = NoOwner
    /\ req' = [req EXCEPT ![h].pc = "cap_imwrite",
                          ![h].frame_to_save = latest_frame_full]
    /\ UNCHANGED <<now, latest_frame_full, prev_frame_gray, motion_detected,
                   leds, led_lock, led_target, flash_override_end,
                   motion_led_auto, cap, evaluated, upd, auto, captures_dir>>

\* What cv2.imwrite leaves at filepath: the file it wrote; when it fails,
\* nothing, or the file an earlier capture of the same second wrote there.
AtFilepath(result, present) ==
    IF result = "written" THEN "written"
    ELSE IF present THEN "stale" ELSE "failed"

\* lines 219-222: the file is named for the present second, and
\* cv2.imwrite(filepath, frame_to_save) writes it, or returns False having
\* written nothing; the result is not looked at.
SnapshotImwrite(h) ==
    /\ req[h].pc = "cap_imwrite"
    /\ \E result \in {"written", "failed"} :
         /\ req' = [req EXCEPT ![h].pc = "cap_flash_lock",
                               ![h].saved = AtFilepath(result, captures_dir)]
         /\ captures_dir' = (captures_dir \/ result = "written")
    /\ UNCHANGED <<now, latest_frame_full, frame_lock, prev_frame_gray,
                   motion_detected, leds, led_lock, led_target,
                   flash_override_end, motion_led_auto, cap, evaluated, upd, auto>>

\* line 223: with led_lock.
SnapshotFlashLock(h) ==
    /\ req[h].pc = "cap_flash_lock"
    /\ LockFree(led_lock)
    /\ led_lock' = h
    /\ req' = [req EXCEPT ![h].pc = "cap_flash"]
    /\ UNCHANGED <<now, latest_frame_full, frame_lock, prev_frame_gray,
                   motion_detected, leds, led_target, flash_override_end,
                   motion_led_auto, cap, evaluated, upd, auto, captures_dir>>

\* A flash of one second.
FlashEndShort(t) == t + 1

\* The end of a flash that starts at time t.
FlashEnd(t) == t + FlashSeconds

\* line 224: flash_override_end = time.time() + 2, and the lock is released.
SnapshotFlash(h) ==
    /\ req[h].pc = "cap_flash"
    /\ flash_override_end' = FlashEnd(now)
    /\ led_lock' = NoOwner
    /\ req' = [req EXCEPT ![h].pc = "cap_notify", ![h].flashed = TRUE]
    /\ UNCHANGED <<now, latest_frame_full, frame_lock, prev_frame_gray,
                   motion_detected, leds, led_target, motion_led_auto, cap,
                   evaluated, upd, auto, captures_dir>>

\* lines 225-228: the notification.
SnapshotNotify(h) ==
    /\ req[h].pc = "cap_notify"
    /\ req' = [req EXCEPT ![h].pc = "cap_send", ![h].notified = TRUE]
    /\ UNCHANGED <<now, latest_frame_full, frame_lock, prev_frame_gray,
                   motion_detected, leds, led_lock, led_target,
                   flash_override_end, motion_led_auto, cap, evaluated, upd, auto,
                   captures_dir>>

\* lines 227, 41: requests.post is given no timeout: before a collaborator
\* that accepts the call and never answers, send_push_notification does not
\* return, and the handler stays in it.
SnapshotNotifyHangs(h) ==
    /\ req[h].pc = "cap_notify"
    /\ req' = [req EXCEPT ![h].pc = "cap_notify_wait"]
    /\ UNCHANGED <<now, latest_frame_full, frame_lock, prev_frame_gray,
                   motion_detected, leds, led_lock, led_target,
                   flash_override_end, motion_led_auto, cap, evaluated, upd, auto,
                   captures_dir>>

\* line 229: send_file(filepath): the file found at filepath, or an error
\* when there is none.
SendFile(saved) ==
    IF saved \in {"written", "stale"} THEN Response(200, "file", TRUE)
    ELSE Response(500, "error", FALSE)

SnapshotSend(h) ==
    /\ req[h].pc = "cap_send"
    /\ req' = [req EXCEPT ![h] = Return(h, SendFile(req[h].saved))]
    /\ UNCHANGED <<now, latest_frame_full, frame_lock, prev_frame_gray,
                   motion_detected, leds, led_lock, led_target,
                   flash_override_end, motion_led_auto, cap, evaluated, upd, auto,
                   captures_dir>>

\* lines 231-233: motion_status.
MotionStatus(h) ==
    /\ req[h].pc = "idle"
    /\ req' = [req EXCEPT ![h] = [Begin(h, "motion_status") EXCEPT
                  !.resp = Response(200, "motion", motion_detected)]]
    /\ UNCHANGED <<now, latest_frame_full, frame_lock, prev_frame_gray,
                   motion_detected, leds, led_lock, led_target,
                   flash_override_end, motion_led_auto, cap, evaluated, upd, auto,
                   captures_dir>>

\* A set_led_endpoint that does not look at the auto mode.
RejectsNever(auto_mode) == FALSE

\* line 243: if motion_led_auto.
Rejects(auto_mode) == auto_mode

\* lines 243-244: set_led_endpoint while auto mode is on, 400.
SetLedRejected(h) ==
    /\ req[h].pc = "idle"
    /\ Rejects(motion_led_auto)
    /\ \E form \in Forms :
         req' = [req EXCEPT ![h] = [Begin(h, "set_led") EXCEPT
                    !.resp = Response(400, "Motion LED auto mode is enabled.",
                                      FALSE)]]
    /\ UNCHANGED <<now, latest_frame_full, frame_lock, prev_frame_gray,
                   motion_detected, leds, led_lock, led_target,
                   flash_override_end, motion_led_auto, cap, evaluated, upd, auto,
                   captures_dir>>

\* lines 243-250: auto mode is off, the form is parsed.
SetLedParse(h) ==
    /\ req[h].pc = "idle"
    /\ ~Rejects(motion_led_auto)
    /\ \E form \in Forms :
         req' = [req EXCEPT ![h] = [Begin(h, "set_led") EXCEPT
                    !.pc = "set_lock", !.form = form,
                    !.color = ParseColor(form)]]
    /\ UNCHANGED <<now, latest_frame_full, frame_lock, prev_frame_gray,
                   motion_detected, leds, led_lock, led_target,
                   flash_override_end, motion_led_auto, cap, evaluated, upd, auto,
                   captures_dir>>

\* lines 251, 157: set_led_target((r, g, b)) enters with led_lock.
SetLedLock(h) ==
    /\ req[h].pc = "set_lock"
    /\ LockFree(led_lock)
    /\ led_lock' = h
    /\ req' = [req EXCEPT ![h].pc = "set_write"]
    /\ UNCHANGED <<now, latest_frame_full, frame_lock, prev_frame_gray,
                   motion_detected, leds, led_target, flash_override_end,
                   motion_led_auto, cap, evaluated, upd, auto, captures_dir>>

\* line 158: led_target = new_color, and the lock is released.
SetLedWrite(h) ==
    /\ req[h].pc = "set_write"
    /\ led_target' = req[h].color
    /\ led_lock' = NoOwner
    /\ req' = [req EXCEPT ![h].pc = "set_notify"]
    /\ UNCHANGED <<now, latest_frame_full, frame_lock, prev_frame_gray,
                   motion_detected, leds, flash_override_end, motion_led_auto,
                   cap, evaluated, upd, auto, captures_dir>>

\* lines 252-255: the notification, then jsonify(success=True).
SetLedReturn(h) ==
    /\ req[h].pc = "set_notify"
    /\ req' = [req EXCEPT ![h] = [Return(h, Response(200, "success", TRUE))
                                     EXCEPT !.notified = TRUE]]
    /\ UNCHANGED <<now, latest_frame_full, frame_lock, prev_frame_gray,
                   motion_detected, leds, led_lock, led_target,
                   flash_override_end, motion_led_auto, cap, evaluated, upd, auto,
                   captures_dir>>

\* A toggle that only switches auto mode off.
ToggledOff(flag) == FALSE

\* line 261, right-hand side: not motion_led_auto.
Toggled(flag) == ~flag

ToggleRead(h) ==
    /\ req[h].pc = "idle"
    /\ req' = [req EXCEPT ![h] = [Begin(h, "toggle") EXCEPT
                  !.pc = "tog_store", !.tmp = Toggled(motion_led_auto)]]
    /\ UNCHANGED <<now, latest_frame_full, frame_lock, prev_frame_gray,
                   motion_detected, leds, led_lock, led_target,
                   flash_override_end, motion_led_auto, cap, evaluated, upd, auto,
                   captures_dir>>

\* line 261: motion_led_auto is assigned.
ToggleStore(h) ==
    /\ req[h].pc = "tog_store"
    /\ motion_led_auto' = req[h].tmp
    /\ req' = [req EXCEPT ![h].pc = "tog_return"]
    /\ UNCHANGED <<now, latest_frame_full, frame_lock, prev_frame_gray,
                   motion_detected, leds, led_lock, led_target,
                   flash_override_end, cap, evaluated, upd, auto,
                   captures_dir>>

\* line 262: jsonify(motion_led_auto=motion_led_auto).
ToggleReturn(h) ==
    /\ req[h].pc = "tog_return"
    /\ req' = [req EXCEPT
                  ![h] = Return(h, Response(200, "motion_led_auto",
                                            motion_led_auto))]
    /\ UNCHANGED <<now, latest_frame_full, frame_lock, prev_frame_gray,
                   motion_detected, leds, led_lock, led_target,
                   flash_override_end, motion_led_auto, cap, evaluated, upd, auto,
                   captures_dir>>

\* lines 202-205, 111: a client opens /video_feed, and gen_video_stream
\* starts.
VideoFeed(h) ==
    /\ req[h].pc = "idle"
    /\ req' = [req EXCEPT ![h] = [Begin(h, "video_feed") EXCEPT
                                     !.pc = "vid_lock"]]
    /\ UNCHANGED <<now, latest_frame_full, frame_lock, prev_frame_gray,
                   motion_detected, leds, led_lock, led_target,
                   flash_override_end, motion_led_auto, cap, evaluated, upd, auto,
                   captures_dir>>

\* line 112: with frame_lock.
VideoLock(h) ==
    /\ req[h].pc = "vid_lock"
    /\ LockFree(frame_lock)
    /\ frame_lock' = h
    /\ req' = [req EXCEPT ![h].pc = "vid_check"]
    /\ UNCHANGED <<now, latest_frame_full, prev_frame_gray, motion_detected,
                   leds, led_lock, led_target, flash_override_end,
                   motion_led_auto, cap, evaluated, upd, auto, captures_dir>>

\* lines 113-114: no frame yet: continue leaves the with block, and the loop
\* goes back to line 112 with no sleep.
VideoNoFrame(h) ==
    /\ req[h].pc = "vid_check"
    /\ ~FramePresent(latest_frame_full)
    /\ frame_lock' = NoOwner
    /\ req' = [req EXCEPT ![h].pc = "vid_lock"]
    /\ UNCHANGED <<now, latest_frame_full, prev_frame_gray, motion_detected,
                   leds, led_lock, led_target, flash_override_end,
                   motion_led_auto, cap, evaluated, upd, auto, captures_dir>>

\* lines 113, 115: a frame is there: cv2.resize is called, frame_lock held.
VideoResize(h) ==
    /\ req[h].pc = "vid_check"
    /\ FramePresent(latest_frame_full)
    /\ req' = [req EXCEPT ![h].pc = "vid_resize"]
    /\ UNCHANGED <<now, latest_frame_full, frame_lock, prev_frame_gray,
                   motion_detected, leds, led_lock, led_target,
                   flash_override_end, motion_led_auto, cap, evaluated, upd, auto,
                   captures_dir>>

\* lines 115-116: cv2.resize returns and cv2.imencode is called, frame_lock
\* held.
VideoEncode(h) ==
    /\ req[h].pc = "vid_resize"
    /\ req' = [req EXCEPT ![h].pc = "vid_encode"]
    /\ UNCHANGED <<now, latest_frame_full, frame_lock, prev_frame_gray,
                   motion_detected, leds, led_lock, led_target,
                   flash_override_end, motion_led_auto, cap, evaluated, upd, auto,
                   captures_dir>>

\* lines 116-119: cv2.imencode returns: with no JPEG, continue; with one,
\* frame_bytes = jpeg.tobytes().  Either way the with block is left.
VideoEncoded(h) ==
    /\ req[h].pc = "vid_encode"
    /\ frame_lock' = NoOwner
    /\ \E ret \in BOOLEAN :
         req' = [req EXCEPT ![h].pc = IF ret THEN "vid_yield" ELSE "vid_lock"]
    /\ UNCHANGED <<now, latest_frame_full, prev_frame_gray, motion_detected,
                   leds, led_lock, led_target, flash_override_end,
                   motion_led_auto, cap, evaluated, upd, auto, captures_dir>>

\* lines 120-121: the part is yielded to the client, then time.sleep(0.03).
VideoYield(h) ==
    /\ req[h].pc = "vid_yield"
    /\ req' = [req EXCEPT ![h].pc = "vid_lock"]
    /\ UNCHANGED <<now, latest_frame_full, frame_lock, prev_frame_gray,
                   motion_detected, leds, led_lock, led_target,
                   flash_override_end, motion_led_auto, cap, evaluated, upd, auto,
                   captures_dir>>

\* line 120: the client has gone: the generator is closed at its yield.
VideoClose(h) ==
    /\ req[h].pc = "vid_yield"
    /\ req' = [req EXCEPT ![h] = Return(h, Response(200, "stream", TRUE))]
    /\ UNCHANGED <<now, latest_frame_full, frame_lock, prev_frame_gray,
                   motion_detected, leds, led_lock, led_target,
                   flash_override_end, motion_led_auto, cap, evaluated, upd, auto,
                   captures_dir>>

off_led_endpoint(h) == OffLedLock(h) \/ OffLedWrite(h) \/ OffLedReturn(h)

capture(h) ==
    \/ SnapshotLock(h) \/ SnapshotNoFrame(h) \/ SnapshotCopy(h)
    \/ SnapshotImwrite(h) \/ SnapshotFlashLock(h) \/ SnapshotFlash(h)
    \/ SnapshotNotify(h) \/ SnapshotSend(h)

set_led_endpoint(h) ==
    \/ SetLedRejected(h) \/ SetLedParse(h) \/ SetLedLock(h) \/ SetLedWrite(h)
    \/ SetLedReturn(h)

toggle_motion_led(h) == ToggleRead(h) \/ ToggleStore(h) \/ ToggleReturn(h)

video_feed(h) ==
    \/ VideoFeed(h) \/ VideoLock(h) \/ VideoNoFrame(h) \/ VideoResize(h)
    \/ VideoEncode(h) \/ VideoEncoded(h) \/ VideoYield(h) \/ VideoClose(h)

Handler(h) ==
    \/ off_led_endpoint(h) \/ capture(h) \/ MotionStatus(h)
    \/ set_led_endpoint(h) \/ toggle_motion_led(h)

\* ------------------------------------------------------------ specifications
\* The three loops, one client whose requests come one at a time, before a
\* notification collaborator that may never answer, and a video stream.
Next ==
    \/ Tick
    \/ capture_frames
    \/ led_update_loop
    \/ auto_led_update
    \/ Handler("h1")
    \/ SnapshotNotifyHangs("h1")
    \/ video_feed("h2")

Spec == Init /\ [][Next]_vars

\* The stores and the control surface: every request, the acquisition and
\* the auto policy; the render loop is not scheduled.
ControlNext ==
    \/ Tick
    \/ capture_frames
    \/ auto_led_update
    \/ Handler("h1")

SpecControl == Init /\ [][ControlNext]_vars

\* The flash: snapshots and off requests while auto mode stays on, before a
\* camera that does not fail.
FlashNext ==
    \/ Tick
    \/ CaptureArray
    \/ StoreLock
    \/ StoreFrame
    \/ EvaluateMotion
    \/ led_update_loop
    \/ auto_led_update
    \/ capture("h1")
    \/ off_led_endpoint("h1")

SpecFlash == Init /\ [][FlashNext]_vars

\* Auto mode stays on and no snapshot is taken.
AutoNext ==
    \/ Tick
    \/ capture_frames
    \/ led_update_loop
    \/ auto_led_update
    \/ off_led_endpoint("h1")
    \/ SetLedRejected("h1")
    \/ MotionStatus("h1")

SpecAuto == Init /\ [][AutoNext]_vars

\* A scene in which nothing moves.
StillScene == { <<Black, Black, Black>> }

\* Manual mode: before a still scene, the client switches auto mode off,
\* sets colours and takes snapshots; the auto policy is not scheduled.
ManualNext ==
    \/ Tick
    \/ CaptureFrom(StillScene)
    \/ StoreLock
    \/ StoreFrame
    \/ EvaluateMotion
    \/ led_update_loop
    \/ (motion_led_auto /\ ToggleRead("h1"))
    \/ ToggleStore("h1")
    \/ ToggleReturn("h1")
    \/ set_led_endpoint("h1")
    \/ capture("h1")

\* A request that has started goes on.
Running(h) == req[h].pc # "idle" /\ Handler(h)

\* Time passes, a request that can go on does, and the render loop is
\* scheduled again and again: it gets led_lock if the lock is free again and
\* again.
FairManual ==
    /\ Init /\ [][ManualNext]_vars
    /\ WF_vars(Tick)
    /\ WF_vars(Running("h1"))
    /\ SF_vars(led_update_loop)

\* The acquisition before a still scene.
StillCapture ==
    \/ CaptureFrom(StillScene) \/ StoreLock \/ StoreFrame \/ EvaluateMotion

\* Snapshots, before a notification collaborator that may never answer.
NotifyNext ==
    \/ Tick
    \/ StillCapture
    \/ capture("h1")
    \/ SnapshotNotifyHangs("h1")

\* Time passes, the acquisition goes on, and a request that can go on does.
FairNotify ==
    /\ Init /\ [][NotifyNext]_vars
    /\ WF_vars(Tick)
    /\ WF_vars(StillCapture)
    /\ WF_vars(Running("h1"))

\* Every thread that runs beside the render loop, within one second: the
\* acquisition, the auto policy, a client's requests and a video stream.
ActuatorNext ==
    \/ StillCapture
    \/ CaptureArrayFails
    \/ PrintError
    \/ led_update_loop
    \/ auto_led_update
    \/ Handler("h1")
    \/ video_feed("h2")

SpecActuator == Init /\ [][ActuatorNext]_vars

\* Two clients at once: each sets colours and toggles auto mode.
ConcurrentNext ==
    \/ set_led_endpoint("h1")
    \/ toggle_motion_led("h1")
    \/ set_led_endpoint("h2")
    \/ toggle_motion_led("h2")

SpecConcurrent == Init /\ [][ConcurrentNext]_vars

\* The acquisition alone, before a scene that tries the detector, with a
\* camera that may fail.
MotionNext ==
    \/ CaptureFrom(MotionFrames)
    \/ CaptureArrayFails
    \/ PrintError
    \/ StoreLock
    \/ StoreFrame
    \/ EvaluateMotion

SpecMotion == Init /\ [][MotionNext]_vars

\* The three loops before a camera that may fail at every attempt.
CameraNext ==
    \/ capture_frames
    \/ led_update_loop
    \/ auto_led_update

\* Each loop is scheduled again and again: the acquisition goes on when it
\* can, and the render loop and the auto policy get led_lock if it is free
\* again and again.  Whether an attempt of the camera succeeds is left open.
FairCamera ==
    /\ Init /\ [][CameraNext]_vars
    /\ WF_vars(capture_frames)
    /\ SF_vars(led_update_loop)
    /\ SF_vars(auto_led_update)

\* -------------------------------------------------------------------- claims
\* A request for op arrives at handler h, and its first statement runs.
Started(h, op) ==
    req[h].pc = "idle" /\ req'[h] # req[h] /\ req'[h].op = op

\* Handler h steps from one place of its code to another.
Moved(h, from, to) == req[h].pc = from /\ req'[h].pc = to

\* C1: whenever a frame is stored, the motion verdict a reader finds beside
\* it is the one evaluated on that frame: the two were written together.
PairWrittenTogether == FramePresent(latest_frame_full) => evaluated

\* C2: set_led while auto mode is on is rejected and leaves led_target and
\* flash_override_end alone; while auto mode is off it goes on, writes the
\* requested colour to led_target and returns success.
SetManualColorGuard ==
    [][\A h \in Handlers :
        /\ Started(h, "set_led") /\ motion_led_auto
             => /\ req'[h].pc = "idle"
                /\ req'[h].resp.status = 400
                /\ UNCHANGED <<led_target, flash_override_end>>
        /\ Started(h, "set_led") /\ ~motion_led_auto
             => req'[h].pc = "set_lock"
        /\ Moved(h, "set_write", "set_notify")
             /\ (\A i \in 1..3 : IsFloat(req[h].form[i]))
             => \A i \in 1..3 : led_target'[i] = Channel(req[h].form[i])
        /\ Moved(h, "set_notify", "idle")
             => req'[h].resp.status = 200 /\ req'[h].resp.value
      ]_vars

\* C2: a set_led is rejected after an earlier one had set a colour.
SetManualColorGuardWitness ==
    /\ req["h1"].pc = "idle"
    /\ req["h1"].op = "set_led"
    /\ req["h1"].resp.status = 400
    /\ motion_led_auto
    /\ led_target = <<100, 1, 0>>

\* C3: off_led is never rejected, its write leaves led_target at (0, 0, 0),
\* it returns success, and no step of it changes motion_led_auto or
\* flash_override_end.
ForceOff ==
    [][\A h \in Handlers :
        /\ Started(h, "off_led") => req'[h].pc = "off_write"
        /\ Moved(h, "off_write", "off_notify") => led_target' = <<0, 0, 0>>
        /\ Moved(h, "off_notify", "idle")
             => req'[h].resp.status = 200 /\ req'[h].resp.value
        /\ req'[h].op = "off_led" /\ req'[h] # req[h]
             => UNCHANGED <<motion_led_auto, flash_override_end>>
      ]_vars

\* C3: off_led has written over the blue of the auto policy, auto mode on.
ForceOffWitness ==
    /\ req["h1"].pc = "off_notify"
    /\ motion_led_auto
    /\ motion_detected
    /\ auto.new_color = <<0, 0, 100>>
    /\ auto.pc = "sleep"
    /\ led_target = <<0, 0, 0>>

\* C5: after two toggles one after the other, motion_led_auto is what it was
\* before the first, and the second returned that value; no step of a toggle
\* changes led_target, flash_override_end, the stored frame or the verdict.
ToggleTwice ==
    /\ [](\A h \in Handlers :
            req[h].pc = "idle" /\ req[h].streak = 2
              => /\ motion_led_auto = req[h].origin
                 /\ req[h].resp.status = 200
                 /\ req[h].resp.value = req[h].origin)
    /\ [][\A h \in Handlers :
            req'[h].op = "toggle" /\ req'[h] # req[h]
              => UNCHANGED <<led_target, flash_override_end,
                             latest_frame_full, motion_detected>>
         ]_vars

\* C5: two toggles have run, from auto mode off, after a colour was set.
ToggleTwiceWitness ==
    /\ req["h1"].pc = "idle"
    /\ req["h1"].streak = 2
    /\ ~req["h1"].origin
    /\ led_target = <<100, 1, 0>>

\* C8: every channel of led_target lies in [0, 1].
SteadyInRange == \A i \in 1..3 : led_target[i] >= 0 /\ led_target[i] <= One

\* Some channel of the form is no number.
NonNumeric(form) == \E i \in 1..3 : ~IsFloat(form[i])

\* C9, as claimed: a set_led with a non-numeric channel writes 0 to that
\* channel of led_target and the given values to the other channels.
NonNumericChannelOnly ==
    [][\A h \in Handlers :
        Moved(h, "set_write", "set_notify") /\ NonNumeric(req[h].form)
          => \A i \in 1..3 :
               led_target'[i] = IF IsFloat(req[h].form[i])
                                THEN Channel(req[h].form[i]) ELSE 0
      ]_vars

\* C9, amended: a set_led with a non-numeric channel, auto mode off, is not
\* rejected, writes 0 to all three channels of led_target and returns
\* success.
NonNumericAllZero ==
    [][\A h \in Handlers :
        /\ Started(h, "set_led") /\ ~motion_led_auto
             => req'[h].pc = "set_lock"
        /\ Moved(h, "set_write", "set_notify") /\ NonNumeric(req[h].form)
             => led_target' = <<0, 0, 0>>
        /\ Moved(h, "set_notify", "idle") => req'[h].resp.status = 200
      ]_vars

\* C9: the form with a non-numeric red has been written over a colour.
NonNumericWitness ==
    /\ req["h1"].pc = "set_notify"
    /\ req["h1"].form = <<"abc", "50", "100">>
    /\ led_target = <<0, 0, 0>>
    /\ ~motion_led_auto
    /\ ~motion_detected

\* C10: a capture that finds no frame returns 503 and changes neither
\* led_target nor flash_override_end; a request that got 503 has called
\* neither imwrite nor the notification and has set no flash; and imwrite,
\* the flash and the notification happen only with a frame in hand.
NotReady ==
    /\ [][\A h \in Handlers :
            /\ Moved(h, "cap_check", "idle") /\ latest_frame_full = None
                 => /\ req'[h].resp.status = 503
                    /\ UNCHANGED <<led_target, flash_override_end>>
            /\ req[h].pc = "cap_check" /\ latest_frame_full = None
                 => req'[h].pc \in {"cap_check", "idle"}
         ]_vars
    /\ [](\A h \in Handlers :
            /\ req[h].resp.status = 503
                 => req[h].saved = "no" /\ ~req[h].flashed /\ ~req[h].notified
            /\ req[h].op = "capture" /\ req[h].pc # "idle"
                 /\ (req[h].saved # "no" \/ req[h].flashed \/ req[h].notified)
                 => req[h].frame_to_save # None)

\* C10: a capture came before the first frame and got 503.
NotReadyWitness ==
    /\ req["h1"].pc = "idle"
    /\ req["h1"].op = "capture"
    /\ req["h1"].resp.status = 503
    /\ latest_frame_full = None

\* The render loop chooses desired.
Resolved == upd.pc \in {"resolve", "target"} /\ upd'.pc = "drive"

\* C4: every colour the render loop resolves is white if its clock reading is
\* before flash_override_end, as it stands when desired is assigned, and
\* led_target, as it stands then, otherwise; and a snapshot at time t sets
\* flash_override_end to t + 2.
ResolveAtomic ==
    [][/\ Resolved
            => upd'.desired = IF upd.now < flash_override_end
                              THEN <<100, 100, 100>> ELSE led_target
       /\ \A h \in Handlers :
            Moved(h, "cap_flash", "cap_notify")
              => flash_override_end' = now + 2
      ]_vars

\* C4: white is resolved during a flash, over a blue target the auto policy
\* is about to replace.
ResolveAtomicWitness ==
    /\ upd.pc = "drive"
    /\ upd.now < flash_override_end
    /\ upd.desired = <<100, 100, 100>>
    /\ led_target = <<0, 0, 100>>
    /\ auto.pc = "lock"

\* C7: with auto mode on and no flash, an auto cycle that reads motion writes
\* blue and one that reads none writes off, in one assignment of led_target;
\* led_target and the colour the render loop resolves are never anything but
\* off or blue, and the LED outputs, once driven, are those of off or blue.
AutoTransition ==
    /\ [](/\ led_target \in {<<0, 0, 0>>, <<0, 0, 100>>}
          /\ upd.desired \in {None, <<0, 0, 0>>, <<0, 0, 100>>}
          /\ leds \in {<<0, 0, 0>>, <<100, 100, 100>>, <<100, 100, 0>>})
    /\ [][/\ auto.pc = "read" /\ auto'.pc = "lock"
               => auto'.new_color = IF motion_detected
                                    THEN <<0, 0, 100>> ELSE <<0, 0, 0>>
          /\ auto.pc = "write" /\ auto'.pc = "sleep"
               => led_target' = auto.new_color
          /\ upd.pc = "drive" /\ upd'.pc = "sleep"
               => leds' = IF upd.desired = <<0, 0, 100>>
                          THEN <<100, 100, 0>> ELSE <<100, 100, 100>>
         ]_vars

\* C7: the LED shows off, motion has come, the auto cycle has written blue
\* and the render loop is about to drive it.
AutoTransitionWitness ==
    /\ motion_led_auto
    /\ motion_detected
    /\ auto.pc = "sleep"
    /\ led_target = <<0, 0, 100>>
    /\ leds = <<100, 100, 100>>
    /\ upd.pc = "drive"
    /\ upd.desired = <<0, 0, 100>>

\* The colours a set_led can leave in led_target.
ManualColors == {ParseColor(form) : form \in Forms}

\* The render loop has finished a cycle whose clock reading was at or after
\* end, and has driven colour c.
DroveAfter(end, c) ==
    /\ upd.pc = "sleep"
    /\ upd.now >= end
    /\ upd.desired = c
    /\ leds = SetLedColor(c)

\* C6: a capture with a frame sets flash_override_end to its time + 2 and,
\* the file written, returns it; every render cycle whose clock reading is
\* before flash_override_end resolves white and drives it, and every cycle
\* read at or after it resolves led_target and drives it; and with auto mode
\* off and led_target at c, unless led_target is written again or a flash is
\* set that ends after the clock stops, the render loop comes to finish a
\* cycle read at or after flash_override_end that drove c.
FlashThenSteady ==
    /\ [][/\ \A h \in Handlers :
               /\ Moved(h, "cap_flash", "cap_notify")
                    => /\ flash_override_end' = now + 2
                       /\ req[h].frame_to_save # None
               /\ Moved(h, "cap_send", "idle") /\ req[h].saved = "written"
                    => req'[h].resp = Response(200, "file", TRUE)
          /\ Resolved /\ upd.now < flash_override_end
               => upd'.desired = <<100, 100, 100>>
          /\ Resolved /\ upd.now >= flash_override_end
               => upd'.desired = led_target
          /\ upd.pc = "drive" /\ upd'.pc = "sleep"
               => leds' = IF upd.desired = <<100, 100, 100>>
                          THEN <<0, 0, 0>> ELSE SetLedColor(upd.desired)
         ]_vars
    /\ \A c \in ManualColors :
         (~motion_led_auto /\ led_target = c /\ flash_override_end <= MaxTime)
           ~> \/ led_target # c
              \/ flash_override_end > MaxTime
              \/ DroveAfter(flash_override_end, c)

\* C6: auto mode off, red set, a snapshot taken: the render loop drives white
\* while the flash lasts.
FlashThenSteadyWitness ==
    /\ ~motion_led_auto
    /\ led_target = <<100, 1, 0>>
    /\ flash_override_end = 2
    /\ now < flash_override_end
    /\ req["h1"].pc = "idle"
    /\ req["h1"].resp = Response(200, "file", TRUE)
    /\ upd.pc = "sleep"
    /\ upd.desired = <<100, 100, 100>>
    /\ leds = <<0, 0, 0>>

\* C11: a snapshot that found a frame and wrote its file comes to return the
\* file, whatever the notification does: its response does not wait for the
\* notification to finish.
SnapshotNotBlocked ==
    \A h \in Handlers :
        (req[h].pc = "cap_notify" /\ req[h].saved = "written")
          ~> (req[h].pc = "idle" /\ req[h].resp = Response(200, "file", TRUE))

\* C12: a capture whose imwrite failed to save the frame returns a failed
\* response, and no file as if the snapshot had succeeded.
SaveFailureSurfaces ==
    [][\A h \in Handlers :
        Moved(h, "cap_send", "idle") /\ req[h].saved # "written"
          => /\ req'[h].resp.status >= 400
             /\ req'[h].resp.body # "file"
      ]_vars

\* C13: every step that changes the LED outputs is the render loop's
\* set_led_color: it is taken by led_update_loop at line 170, and no request
\* handler, video stream, auto policy cycle or acquisition cycle moves in it.
ActuatorSingleWriter ==
    [][leds' # leds
         => /\ upd.pc = "drive" /\ upd'.pc = "sleep"
            /\ leds' = SetLedColor(upd.desired)
            /\ UNCHANGED <<req, auto, cap>>
      ]_vars

\* C13: the render loop has driven a manual colour while a request is about
\* to write led_target, the auto policy waits for led_lock to write it too,
\* and the video stream is encoding.
ActuatorSingleWriterWitness ==
    /\ upd.pc = "sleep"
    /\ upd.desired = <<100, 1, 0>>
    /\ leds = <<0, 100, 100>>
    /\ req["h1"].pc = "off_write"
    /\ auto.pc = "lock"
    /\ req["h2"].pc = "vid_encode"

\* A request writes led_target: set_led_target at line 158, called by
\* set_led_endpoint or off_led_endpoint.
RequestWrites ==
    \E h \in Handlers :
        Moved(h, "set_write", "set_notify") \/ Moved(h, "off_write", "off_notify")

\* C14: the auto policy never writes led_target while motion_led_auto is
\* false: once auto mode is off, a colour a set_led has written stays in
\* led_target until a request writes it again.
AutoSilentWhenOff ==
    [][~motion_led_auto /\ led_target' # led_target => RequestWrites]_vars

\* C15: a set_led never writes led_target while motion_led_auto is true: its
\* check of the flag and its write are one atomic step against the toggles of
\* other requests.
ManualWriteOnlyWhenOff ==
    [][\A h \in Handlers :
        Moved(h, "set_write", "set_notify") => ~motion_led_auto
      ]_vars

\* C19: every toggle flips motion_led_auto and returns the value it left
\* there, whatever other toggles run beside it: of two concurrent toggles
\* none is lost, and the two return different values.
ToggleAtomic ==
    [][\A h \in Handlers :
        /\ Moved(h, "tog_store", "tog_return")
             => motion_led_auto' # motion_led_auto
        /\ Moved(h, "tog_return", "idle")
             => req'[h].resp.value = req[h].tmp
      ]_vars

\* The number of pixels whose intensity in gray differs from that in prev by
\* more than 25.
RECURSIVE Exceeding(_, _, _)
Exceeding(gray, prev, i) ==
    IF i = 0 THEN 0
    ELSE (IF gray[i] - prev[i] > 25 \/ prev[i] - gray[i] > 25
          THEN RegionSize[i] ELSE 0) + Exceeding(gray, prev, i - 1)

\* C16: the verdict after a cycle is: there is a previous evaluated frame,
\* and more than 5000 pixels differ from it in intensity by more than 25; so
\* the first frame, an identical frame and a frame with exactly 5000 such
\* pixels give no motion; and the previous intensity becomes that of the
\* frame just evaluated, whatever the verdict.
MotionVerdict ==
    [][cap.pc = "evaluate" /\ cap'.pc = "sleep"
         => /\ motion_detected' =
                 (/\ prev_frame_gray # None
                  /\ Exceeding(CvtColor(cap.frame), prev_frame_gray, 3) > 5000)
            /\ prev_frame_gray = None => ~motion_detected'
            /\ prev_frame_gray = CvtColor(cap.frame) => ~motion_detected'
            /\ prev_frame_gray = <<0, 0, 0>> /\ cap.frame = <<Lit, Black, Black>>
                 => ~motion_detected'
            /\ prev_frame_gray' = CvtColor(cap.frame)
      ]_vars

\* C16: after a frame that gave motion and a black frame, a frame with
\* exactly 5000 pixels changed is about to be evaluated.
MotionVerdictWitness ==
    /\ cap.pc = "evaluate"
    /\ cap.frame = <<Lit, Black, Black>>
    /\ latest_frame_full = cap.frame
    /\ prev_frame_gray = <<0, 0, 0>>
    /\ motion_detected

\* C17: no loop ends: each is always at a place of its cycle; after a
\* failed capture the acquisition comes to attempt another; a frame the
\* camera has delivered comes to be stored; and the render loop drives and
\* the auto policy writes again and again, however many captures fail.
LoopsSurviveCamera ==
    /\ [](/\ cap.pc \in {"sleep", "except", "lock", "store", "evaluate"}
          /\ upd.pc \in {"sleep", "lock", "resolve", "target", "drive"}
          /\ auto.pc \in {"sleep", "read", "lock", "write"})
    /\ (cap.pc = "except") ~> (cap.pc = "sleep")
    /\ (cap.pc = "lock") ~> (cap.pc = "evaluate" /\ latest_frame_full = cap.frame)
    /\ []<>(upd.pc = "drive")
    /\ []<>(auto.pc = "write")

\* C17: the camera has failed at every attempt so far, and the render loop
\* and the auto policy have each finished a cycle.
LoopsSurviveCameraWitness ==
    /\ cap.pc = "except"
    /\ latest_frame_full = None
    /\ upd.pc = "sleep"
    /\ upd.desired = <<0, 0, 0>>
    /\ leds = <<100, 100, 100>>
    /\ auto.pc = "sleep"
    /\ auto.new_color = <<0, 0, 0>>

\* The places where a request handler reads or writes a stored value: the
\* read of latest_frame_full (lines 216-218, 113), the writes of
\* flash_override_end (line 224) and of led_target (line 158).
AtStore == {"cap_check", "vid_check", "cap_flash", "off_write", "set_write"}

\* C18: a thread that holds frame_lock or led_lock is at a read or a write
\* of a stored value: it is not sleeping, not inside a call to the camera,
\* the LED driver, the image encoder, the file system or the notification
\* service, and not waiting for the other lock.
LocksHeldBriefly ==
    /\ \A h \in Handlers :
         (frame_lock = h \/ led_lock = h) => req[h].pc \in AtStore
    /\ frame_lock = "cap" => cap.pc = "store"
    /\ led_lock = "upd" => upd.pc \in {"resolve", "target"}
    /\ led_lock = "auto" => auto.pc = "write"

\* Handler h has run the write of an off_led and has started no request
\* since.
ForcedOff(h) ==
    req[h].op = "off_led" /\ req[h].pc \in {"off_notify", "idle"}

\* C20, with auto mode off: after an off_led, with no request since and
\* motion_led_auto false, led_target stays (0, 0, 0).
ForceOffStaysWhenManual ==
    ForcedOff("h1") /\ ~motion_led_auto => led_target = <<0, 0, 0>>
====
